---------------------------- MODULE Spec2Model ----------------------------
(***************************************************************************)
(* A model of src/src/nyc311/ingestion/api_client.py: the pagination loop  *)
(* of NYC311APIClient.fetch_all, the deduplication pass of                 *)
(* fetch_changes_since, validate_records / DataQualityReport, and the      *)
(* watermark handling of IncrementalLoader.load_incremental.               *)
(*                                                                         *)
(* Python's Optional[T] is a sequence of length at most one: None is <<>>  *)
(* and a value v is <<v>>.  Timestamps are fixed-width ISO-8601 strings;   *)
(* they are represented by their rank (1, 2, ...), which orders them as    *)
(* Python's string comparison does.  The empty string "" has rank 0, and   *)
(* an absent field of a record is 0 as well (r.get(f) is None; every use   *)
(* of such a field in the code is a truthiness test or a .get(f, "")).     *)
(***************************************************************************)
EXTENDS Integers, Sequences, FiniteSets, TLC

\* ------------------------------------------------------------------ bounds
\* Largest upstream result set of a fetch_all run.
MaxM == 5
\* Largest configured page size (APIConfig.page_size) tried.
MaxP == 3
\* Largest max_records argument tried.
MaxMaxRecords == 4
\* Largest unique_key of a record (keys are 1..MaxKey; 0 is a missing key).
MaxKey == 2
\* Largest update-stamp rank of a record handed to the deduplication pass.
MaxStamp == 2
\* Last instant of the loader's clock: the ranks of all timestamps are 1..MaxDate.
MaxDate == 3
\* Largest number of records in the upstream dataset.
MaxUp == 2
\* Largest initial_lookback_days argument tried.
MaxLookback == 1
\* Longest batch handed to the deduplication pass.
MaxBatch == 3
\* Latest page request of a load that may fail.
MaxRequests == 2
\* Longest batch handed to validate_records on its own.
MaxChecked == 3
\* Largest total_records of a report taken on its own.
MaxTotal == 100
\* Largest null or duplicate count of a report taken on its own.
MaxCount == 6
\* Largest configured APIConfig.max_retries tried (the default is 3).
MaxRetries == 3

\* ------------------------------------------------------------------ Python
None == <<>>

Some(v) == <<v>>

\* Truthiness of an Optional[int]: None and 0 are falsy.
Truthy(o) == o # None /\ o[1] # 0

Min(a, b) == IF a <= b THEN a ELSE b

Range(s) == {s[i] : i \in 1..Len(s)}

\* ------------------------------------------------------------------ state
VARIABLES
    \* fetch_all: the generator's frame and what it has done so far
    matching,       \* the upstream records matching the where clause, in $order
    page_size,      \* self.config.page_size
    max_records,    \* Optional[int] argument
    offset,         \* local offset
    total_fetched,  \* local total_fetched
    records,        \* local records: the page being iterated
    idx,            \* position of the for loop in records
    emitted,        \* the records yielded so far, in order
    requests,       \* the $offset of every page request issued, in order
    pc,             \* "request" | "yield" | "advance" | "done" | "failed" | "idle"
    \* fetch_changes_since: the deduplication pass over a fetched batch
    batch,          \* local records = list(self.fetch_all(where=where))
    deduped,        \* the returned deduped_records
    dpc,            \* "fetched" | "returned" | "idle"
    \* IncrementalLoader and the world around it
    upstream,       \* the dataset behind the API, newest created_date first
    now,            \* datetime.now(), as a rank
    state_file,     \* the content of self.state_file
    scd2_mode,      \* self.scd2_mode
    strategy,       \* the query the last load_incremental ran
    last_state,     \* the content of the state file when the last load began
    fetched,        \* what fetch_all yielded to the last load
    returned,       \* the records the last load returned
    report,         \* the DataQualityReport the last load returned
    outcome,        \* "idle" | "returned" | "raised" (a page request failed)
                    \* | "state_error" (_read_state raised)
    delivered,      \* history: the created_date of every record a load returned
    repeats,        \* history: those among them that a later load returned again
    \* validate_records and DataQualityReport on their own
    checked,        \* the records handed to validate_records
    quality,        \* the DataQualityReport under consideration
    is_valid,       \* the value read from quality.is_valid
    vpc,            \* "given" | "validated" | "built" | "judged" | "idle"
    \* _fetch_page: one page request through the session's retry adapter
    max_retries,    \* self.config.max_retries
    attempts,       \* how many times the GET has been sent
    responses,      \* the status of every response received, in order
    rpc,            \* "sending" | "returned" | "raised" | "idle"
    \* two load_incremental calls running at once on one state file
    lpc,            \* per call: "start" | "read" | "fetched" | "done" | "idle"
    lstamp,         \* per call: local last_timestamp
    lwrite,         \* per call: report.date_range[1] if it is to be written
    writes          \* history: <<call, timestamp>> of every _write_state, in order

fetchVars == <<matching, page_size, max_records, offset, total_fetched,
               records, idx, emitted, requests, pc>>

dedupVars == <<batch, deduped, dpc>>

worldVars == <<upstream, now>>

resultVars == <<strategy, last_state, fetched, returned, report, outcome>>

historyVars == <<delivered, repeats>>

loaderVars == <<worldVars, state_file, scd2_mode, resultVars, historyVars>>

validateVars == <<checked, quality, is_valid, vpc>>

retryVars == <<max_retries, attempts, responses, rpc>>

raceVars == <<lpc, lstamp, lwrite, writes>>

vars == <<fetchVars, dedupVars, loaderVars, validateVars, retryVars, raceVars>>

\* A component that takes no part in a specification rests in these values.
FetchIdle ==
    /\ matching = <<>>
    /\ page_size = 1
    /\ max_records = None
    /\ offset = 0
    /\ total_fetched = 0
    /\ records = <<>>
    /\ idx = 0
    /\ emitted = <<>>
    /\ requests = <<>>
    /\ pc = "idle"

DedupIdle ==
    /\ batch = <<>>
    /\ deduped = <<>>
    /\ dpc = "idle"

\* The content of the state file: no file, a file that is not JSON, JSON that
\* is not an object, or a JSON object whose "last_loaded_timestamp" is ts
\* (None: the key is missing or null; Some(0): the empty string).
StateFile(kind, ts, mode) == [kind |-> kind, ts |-> ts, scd2_mode |-> mode]

AbsentFile == StateFile("absent", None, FALSE)

\* validate_records' report of an empty batch (lines 360-369).
EmptyReport ==
    [total_records |-> 0,
     null_unique_key |-> 0,
     null_created_date |-> 0,
     null_borough |-> 0,
     invalid_coordinates |-> 0,
     duplicate_keys |-> 0,
     date_range |-> <<None, None>>]

\* No load_incremental has returned since the caller last looked.
ResultIdle ==
    /\ strategy = "none"
    /\ last_state = AbsentFile
    /\ fetched = <<>>
    /\ returned = <<>>
    /\ report = EmptyReport
    /\ outcome = "idle"

LoaderIdle ==
    /\ upstream = <<>>
    /\ now = 1
    /\ state_file = AbsentFile
    /\ scd2_mode = TRUE
    /\ ResultIdle
    /\ delivered = {}
    /\ repeats = {}

ValidateIdle ==
    /\ checked = <<>>
    /\ quality = EmptyReport
    /\ is_valid = TRUE
    /\ vpc = "idle"

RetryIdle ==
    /\ max_retries = 3
    /\ attempts = 0
    /\ responses = <<>>
    /\ rpc = "idle"

\* The two calls that may run at once.
Calls == {1, 2}

RaceIdle ==
    /\ lpc = [l \in Calls |-> "idle"]
    /\ lstamp = [l \in Calls |-> None]
    /\ lwrite = [l \in Calls |-> None]
    /\ writes = <<>>

\* ------------------------------------------------------------ fetch_all
\* The server's answer to $offset=off, $limit=lim over the matching records.
Page(m, off, lim) == SubSeq(m, off + 1, Min(off + lim, Len(m)))

\* _build_query: "$limit": limit or self.config.page_size, with limit = None.
Limit(ps) == ps

FetchInit ==
    /\ \E M \in 0..MaxM : matching = [i \in 1..M |-> i]
    /\ page_size \in 1..MaxP
    /\ max_records \in {None} \cup {Some(n) : n \in 0..MaxMaxRecords}
    /\ offset = 0
    /\ total_fetched = 0
    /\ records = <<>>
    /\ idx = 0
    /\ emitted = <<>>
    /\ requests = <<>>
    /\ pc = "request"

\* records = self._fetch_page(where=where, offset=offset); if not records: break
FetchPage ==
    /\ pc = "request"
    /\ records' = Page(matching, offset, Limit(page_size))
    /\ requests' = Append(requests, offset)
    /\ IF records' = <<>>
         THEN pc' = "done" /\ idx' = 0
         ELSE pc' = "yield" /\ idx' = 1
    /\ UNCHANGED <<matching, page_size, max_records, offset, total_fetched, emitted>>
    /\ UNCHANGED <<dedupVars, loaderVars, validateVars, retryVars, raceVars>>

\* _fetch_page raises requests.RequestException; fetch_all logs and re-raises.
FetchPageFails ==
    /\ pc = "request"
    /\ requests' = Append(requests, offset)
    /\ pc' = "failed"
    /\ UNCHANGED <<matching, page_size, max_records, offset, total_fetched,
                   records, idx, emitted>>
    /\ UNCHANGED <<dedupVars, loaderVars, validateVars, retryVars, raceVars>>

\* if max_records and total_fetched >= max_records: return
MaxReached(mr, total) == Truthy(mr) /\ total >= mr[1]

\* One turn of "for record in records": yield, count, test max_records.
YieldRecord ==
    /\ pc = "yield"
    /\ emitted' = Append(emitted, records[idx])
    /\ total_fetched' = total_fetched + 1
    /\ IF MaxReached(max_records, total_fetched')
         THEN pc' = "done" /\ idx' = idx
         ELSE IF idx < Len(records)
                THEN pc' = "yield" /\ idx' = idx + 1
                ELSE pc' = "advance" /\ idx' = idx
    /\ UNCHANGED <<matching, page_size, max_records, offset, records, requests>>
    /\ UNCHANGED <<dedupVars, loaderVars, validateVars, retryVars, raceVars>>

\* A slip in the advance: one record short of the page just consumed.
NextOffsetShort(off, recs, ps) == off + Len(recs) - 1

\* offset += len(records)
NextOffset(off, recs, ps) == off + Len(recs)

\* A slip in the short-page test: <= for <.
LastPageOrFull(recs, ps) == Len(recs) <= ps

\* if len(records) < self.config.page_size: break
LastPage(recs, ps) == Len(recs) < ps

AdvanceOffset ==
    /\ pc = "advance"
    /\ offset' = NextOffset(offset, records, page_size)
    /\ pc' = IF LastPage(records, page_size) THEN "done" ELSE "request"
    /\ UNCHANGED <<matching, page_size, max_records, total_fetched, records,
                   idx, emitted, requests>>
    /\ UNCHANGED <<dedupVars, loaderVars, validateVars, retryVars, raceVars>>

FetchNext ==
    \/ FetchPage
    \/ FetchPageFails
    \/ YieldRecord
    \/ AdvanceOffset

\* A caller starts consuming fetch_all(where, max_records).
InitFetch ==
    /\ FetchInit
    /\ DedupIdle /\ LoaderIdle /\ ValidateIdle /\ RetryIdle /\ RaceIdle

SpecFetch == InitFetch /\ [][FetchNext]_vars

\* A fully consumed generator takes every step it can; a transport failure is
\* the environment's choice and is not forced.
SpecFetchFair ==
    /\ SpecFetch
    /\ WF_vars(FetchPage)
    /\ WF_vars(YieldRecord)
    /\ WF_vars(AdvanceOffset)

\* ------------------------------------------ fetch_changes_since: dedup
\* The records a batch is drawn from.  complaint_type tells two observations
\* of one entity with the same update stamp apart.
DedupRecords ==
    [unique_key : 0..MaxKey,
     resolution_action_updated_date : 0..MaxStamp,
     complaint_type : {"Noise", "Heat"}]

\* The batches of n records.
Batches(n) == [1..n -> DedupRecords]

\* A slip: every record is grouped, a missing key being a key like another.
HasKeyAlways(record) == TRUE

\* key = record.get("unique_key"); if key:
HasKey(record) == record.unique_key # 0

\* A slip in the comparison: keeps the older version.
NewerReversed(new, old) ==
    new.resolution_action_updated_date < old.resolution_action_updated_date

\* new_updated > old_updated, each read with .get(..., "")
Newer(new, old) ==
    new.resolution_action_updated_date > old.resolution_action_updated_date

\* seen.get(key): the position of key in the insertion-ordered dict, 0 if none.
KeyIndex(seen, key) ==
    IF \E i \in 1..Len(seen) : seen[i].unique_key = key
      THEN CHOOSE i \in 1..Len(seen) : seen[i].unique_key = key
      ELSE 0

\* One turn of "for record in records" over the dict seen.
DedupStep(seen, record) ==
    IF ~HasKey(record)
      THEN seen
      ELSE LET i == KeyIndex(seen, record.unique_key)
           IN  IF i = 0
                 THEN Append(seen, record)
                 ELSE IF Newer(record, seen[i])
                        THEN [seen EXCEPT ![i] = record]
                        ELSE seen

RECURSIVE DedupFrom(_, _, _)
DedupFrom(seen, recs, i) ==
    IF i > Len(recs)
      THEN seen
      ELSE DedupFrom(DedupStep(seen, recs[i]), recs, i + 1)

\* A slip in the loop: the first record of the batch is not looked at.
DedupSkipFirst(recs) == DedupFrom(<<>>, recs, 2)

\* deduped_records = list(seen.values()) after the loop over records
Dedup(recs) == DedupFrom(<<>>, recs, 1)

DedupInit ==
    /\ \E n \in 0..MaxBatch : batch \in Batches(n)
    /\ deduped = <<>>
    /\ dpc = "fetched"

\* Lines 305-324 of fetch_changes_since, from the fetched list to the return.
DedupReturn ==
    /\ dpc = "fetched"
    /\ deduped' = Dedup(batch)
    /\ dpc' = "returned"
    /\ UNCHANGED batch
    /\ UNCHANGED <<fetchVars, loaderVars, validateVars, retryVars, raceVars>>

DedupNext == DedupReturn

\* fetch_changes_since has fetched a batch.
InitDedup ==
    /\ DedupInit
    /\ FetchIdle /\ LoaderIdle /\ ValidateIdle /\ RetryIdle /\ RaceIdle

SpecDedup == InitDedup /\ [][DedupNext]_vars

\* ------------------------------------------------------ list(fetch_all)
\* The list a caller gets from list(self.fetch_all(where)) when no request
\* fails: the loop of lines 204-237 run to its end over the matching records.
RECURSIVE FetchLoop(_, _, _, _, _)
FetchLoop(m, ps, mr, off, out) ==
    LET recs == Page(m, off, Limit(ps))
        room == IF Truthy(mr) THEN mr[1] - Len(out) ELSE Len(recs) + 1
    IN  IF recs = <<>>
          THEN out
          ELSE IF Len(recs) >= room
                 THEN out \o SubSeq(recs, 1, IF room < 1 THEN 1 ELSE room)
                 ELSE IF LastPage(recs, ps)
                        THEN out \o recs
                        ELSE FetchLoop(m, ps, mr, NextOffset(off, recs, ps),
                                       out \o recs)

FetchAllList(m, ps, mr) == FetchLoop(m, ps, mr, 0, <<>>)

\* The step-by-step generator and the list agree on every completed run.
FetchAllListAgrees ==
    pc = "done" => emitted = FetchAllList(matching, page_size, max_records)

\* ------------------------------------------------------- query strategies
\* strftime("%Y-%m-%dT00:00:00"): a day is two ranks long and starts on an
\* even rank.
Midnight(t) == t - (t % 2)

\* since_date = datetime.now() - timedelta(days=days), cut to midnight
SinceDate(t, days) == Midnight(t - 2 * days)

\* A comparison of SoQL: a missing field matches no comparison.
Later(field, ts) == field # 0 /\ field > ts

\* fetch_recent: created_date >= '{since_date}'
WhereRecent(r, since) == r.created_date # 0 /\ r.created_date >= since

\* A slip: >= for >, so the record the watermark came from matches again.
WhereSinceOrAt(r, ts) == r.created_date # 0 /\ r.created_date >= ts

\* fetch_since: created_date > '{timestamp}'
WhereSince(r, ts) == Later(r.created_date, ts)

\* fetch_changes_since: created_date > ts OR resolution_action_updated_date
\* > ts OR closed_date > ts
WhereChanged(r, ts) ==
    \/ Later(r.created_date, ts)
    \/ Later(r.resolution_action_updated_date, ts)
    \/ Later(r.closed_date, ts)

FetchRecent(up, ps, t, days) ==
    FetchAllList(SelectSeq(up, LAMBDA r : WhereRecent(r, SinceDate(t, days))),
                 ps, None)

FetchSince(up, ps, ts) ==
    FetchAllList(SelectSeq(up, LAMBDA r : WhereSince(r, ts)), ps, None)

\* What fetch_changes_since gets from fetch_all, before it deduplicates.
FetchChanged(up, ps, ts) ==
    FetchAllList(SelectSeq(up, LAMBDA r : WhereChanged(r, ts)), ps, None)

\* ------------------------------------------------------- validate_records
\* A coordinate field: "absent" (missing, None or ""), "junk" (text float()
\* rejects), "num" (the text of a number, as the API serves it) or "float" (a
\* Python number); v is the number in tenths of a degree.
Coord(p, v) == [p |-> p, v |-> v]

\* Python truthiness of the field: text is truthy unless empty, "0" included;
\* a number is truthy unless it is zero.
CoordTruthy(c) == c.p \in {"junk", "num"} \/ (c.p = "float" /\ c.v # 0)

NoCoord == Coord("absent", 0)

\* NYC_LAT_MIN, NYC_LAT_MAX, NYC_LON_MIN, NYC_LON_MAX, in tenths of a degree
InBox(lat, lon) ==
    /\ 404 <= lat.v /\ lat.v <= 410
    /\ -743 <= lon.v /\ lon.v <= -737

\* Lines 378-387: whether a record adds one to invalid_coords.
InvalidCoords(r) ==
    /\ CoordTruthy(r.latitude)
    /\ CoordTruthy(r.longitude)
    /\ \/ r.latitude.p = "junk"
       \/ r.longitude.p = "junk"
       \/ ~InBox(r.latitude, r.longitude)

\* sum(1 for r in records if not r.get("unique_key"))
NullUniqueKey(recs) ==
    Cardinality({i \in 1..Len(recs) : recs[i].unique_key = 0})

\* sum(1 for r in records if not r.get("created_date"))
NullCreatedDate(recs) ==
    Cardinality({i \in 1..Len(recs) : recs[i].created_date = 0})

\* sum(1 for r in records if not r.get("borough"))
NullBorough(recs) ==
    Cardinality({i \in 1..Len(recs) : recs[i].borough = ""})

\* invalid_coords after the loop of lines 377-387
InvalidCoordinates(recs) ==
    Cardinality({i \in 1..Len(recs) : InvalidCoords(recs[i])})

SetMax(S) == CHOOSE x \in S : \A y \in S : y <= x

SetMin(S) == CHOOSE x \in S : \A y \in S : x <= y

\* dates = [r.get("created_date") for r in records if r.get("created_date")]
DatesOf(recs) == {recs[i].created_date : i \in 1..Len(recs)} \ {0}

\* (min(dates), max(dates)) if dates else (None, None)
DateRange(recs) ==
    IF DatesOf(recs) = {}
      THEN <<None, None>>
      ELSE <<Some(SetMin(DatesOf(recs))), Some(SetMax(DatesOf(recs)))>>

\* A slip: the list is not filtered, so missing keys are counted too (and
\* None is one more element of the set).
DuplicateKeysUnfiltered(recs) ==
    Len(recs) - Cardinality({recs[i].unique_key : i \in 1..Len(recs)})

\* A slip: the keys that repeat are counted, not their repetitions.
DuplicateKeysRepeated(recs) ==
    Cardinality({k \in {recs[i].unique_key : i \in 1..Len(recs)} \ {0} :
                   \E i, j \in 1..Len(recs) :
                      i # j /\ recs[i].unique_key = k /\ recs[j].unique_key = k})

\* len(unique_keys) - len(set(unique_keys)) over the truthy keys
DuplicateKeys(recs) ==
    Cardinality({i \in 1..Len(recs) : recs[i].unique_key # 0})
        - Cardinality({recs[i].unique_key : i \in 1..Len(recs)} \ {0})

Validate(recs) ==
    IF recs = <<>>
      THEN EmptyReport
      ELSE [total_records |-> Len(recs),
            null_unique_key |-> NullUniqueKey(recs),
            null_created_date |-> NullCreatedDate(recs),
            null_borough |-> NullBorough(recs),
            invalid_coordinates |-> InvalidCoordinates(recs),
            duplicate_keys |-> DuplicateKeys(recs),
            date_range |-> DateRange(recs)]

\* A slip: <= for <, so a rate of exactly 0.05 passes.
IsValidAtMost(rep) ==
    \/ rep.total_records = 0
    \/ /\ 100 * (rep.null_unique_key + rep.null_created_date)
            <= 5 * rep.total_records
       /\ 100 * rep.duplicate_keys <= 5 * rep.total_records

\* A slip: the empty batch is not set apart (0 / 0 is no rate under 0.05).
IsValidNoEmptyCase(rep) ==
    /\ 100 * (rep.null_unique_key + rep.null_created_date)
         < 5 * rep.total_records
    /\ 100 * rep.duplicate_keys < 5 * rep.total_records

\* DataQualityReport.is_valid: both rates under 0.05.  The rates are
\* quotients of counts, and n / t < 0.05 in floating point exactly when
\* 100 n < 5 t for every batch size a list can have.
IsValid(rep) ==
    \/ rep.total_records = 0
    \/ /\ 100 * (rep.null_unique_key + rep.null_created_date)
            < 5 * rep.total_records
       /\ 100 * rep.duplicate_keys < 5 * rep.total_records

\* ------------------------------------------------------ IncrementalLoader
\* A service request as the API serves it.
Request(key, created) ==
    [unique_key |-> key,
     created_date |-> created,
     resolution_action_updated_date |-> 0,
     closed_date |-> 0,
     borough |-> "BRONX",
     latitude |-> Coord("num", 407),
     longitude |-> Coord("num", -739)]

\* What may lie at the state location before the first load.
InitialFiles ==
    {AbsentFile,
     StateFile("garbage", None, FALSE),
     StateFile("nonobject", None, FALSE),
     StateFile("object", None, TRUE),
     StateFile("object", Some(0), TRUE)}

LoaderInit ==
    /\ upstream = <<>>
    /\ now = 1
    /\ state_file \in InitialFiles
    /\ scd2_mode \in BOOLEAN
    /\ page_size = 2
    /\ ResultIdle
    /\ delivered = {}
    /\ repeats = {}

\* _read_state: None for a missing file or one that is not JSON, else
\* state.get("last_loaded_timestamp").
ReadState(f) == IF f.kind = "object" THEN f.ts ELSE None

\* json.load gives a list, a string, a number or null: state.get raises
\* AttributeError, which the except clause of line 460 does not name.
ReadRaises(f) == f.kind = "nonobject"

\* _write_state
WriteState(ts, mode) == StateFile("object", Some(ts), mode)

\* if last_timestamp: (None and "" are falsy)
HasWatermark(f) == Truthy(ReadState(f))

\* Lines 490-499: the query load_incremental runs.
StrategyOf(f, mode) ==
    IF HasWatermark(f)
      THEN IF mode THEN "changed_since" ELSE "since"
      ELSE "recent"

\* What the strategy's fetch_all yields.
FetchedBy(f, mode, up, ps, t, days) ==
    IF StrategyOf(f, mode) = "changed_since"
      THEN FetchChanged(up, ps, ReadState(f)[1])
      ELSE IF StrategyOf(f, mode) = "since"
             THEN FetchSince(up, ps, ReadState(f)[1])
             ELSE FetchRecent(up, ps, t, days)

\* records of line 493, 496 or 499: only fetch_changes_since deduplicates.
RecordsOf(f, mode, up, ps, t, days) ==
    IF StrategyOf(f, mode) = "changed_since"
      THEN Dedup(FetchedBy(f, mode, up, ps, t, days))
      ELSE FetchedBy(f, mode, up, ps, t, days)

\* A slip: the state written is date_range[0], the earliest created_date.
StateAfterEarliest(f, mode, recs, rep) ==
    IF recs # <<>> /\ Truthy(rep.date_range[1])
      THEN WriteState(rep.date_range[1][1], mode)
      ELSE f

\* A slip: `if records:` alone, so a batch without dates writes a null stamp.
StateAfterAnyRecords(f, mode, recs, rep) ==
    IF recs # <<>>
      THEN IF Truthy(rep.date_range[2])
             THEN WriteState(rep.date_range[2][1], mode)
             ELSE StateFile("object", None, mode)
      ELSE f

\* A slip: the watermark is advanced only for a batch that passes is_valid.
StateAfterIfValid(f, mode, recs, rep) ==
    IF recs # <<>> /\ Truthy(rep.date_range[2]) /\ IsValid(rep)
      THEN WriteState(rep.date_range[2][1], mode)
      ELSE f

\* if records and report.date_range[1]: self._write_state(...)
StateAfter(f, mode, recs, rep) ==
    IF recs # <<>> /\ Truthy(rep.date_range[2])
      THEN WriteState(rep.date_range[2][1], mode)
      ELSE f

\* load_incremental(initial_lookback_days=days), no request failing.
LoadIncremental(days) ==
    /\ ~ReadRaises(state_file)
    /\ strategy' = StrategyOf(state_file, scd2_mode)
    /\ last_state' = state_file
    /\ fetched' = FetchedBy(state_file, scd2_mode, upstream, page_size, now, days)
    /\ returned' = RecordsOf(state_file, scd2_mode, upstream, page_size, now, days)
    /\ report' = Validate(returned')
    /\ state_file' = StateAfter(state_file, scd2_mode, returned', report')
    /\ outcome' = "returned"
    /\ delivered' = delivered \cup DatesOf(returned')
    /\ repeats' = repeats \cup (DatesOf(returned') \cap delivered)
    /\ UNCHANGED <<worldVars, scd2_mode>>
    /\ UNCHANGED <<fetchVars, dedupVars, validateVars, retryVars, raceVars>>

\* The result set the strategy's where clause matches.
MatchedBy(f, mode, up, t, days) ==
    IF StrategyOf(f, mode) = "changed_since"
      THEN SelectSeq(up, LAMBDA r : WhereChanged(r, ReadState(f)[1]))
      ELSE IF StrategyOf(f, mode) = "since"
             THEN SelectSeq(up, LAMBDA r : WhereSince(r, ReadState(f)[1]))
             ELSE SelectSeq(up, LAMBDA r : WhereRecent(r, SinceDate(t, days)))

\* fetch_all (no max_records) whose k-th page request raises: Some(the
\* records yielded before it), or None when the loop ends in fewer than k
\* requests.
RECURSIVE YieldedBefore(_, _, _, _, _)
YieldedBefore(m, ps, k, off, out) ==
    IF k = 1
      THEN Some(out)
      ELSE LET recs == Page(m, off, Limit(ps))
           IN  IF recs = <<>> \/ LastPage(recs, ps)
                 THEN None
                 ELSE YieldedBefore(m, ps, k - 1, NextOffset(off, recs, ps),
                                    out \o recs)

\* A slip: the watermark is advanced page by page, so a failing request
\* leaves the stamp of the pages before it.
LoadIncrementalFailsAfterWrite(days, k) ==
    LET got == YieldedBefore(MatchedBy(state_file, scd2_mode, upstream, now,
                                       days), page_size, k, 0, <<>>)
    IN  /\ ~ReadRaises(state_file)
        /\ got # None
        /\ strategy' = StrategyOf(state_file, scd2_mode)
        /\ last_state' = state_file
        /\ fetched' = got[1]
        /\ returned' = <<>>
        /\ report' = EmptyReport
        /\ outcome' = "raised"
        /\ state_file' = StateAfter(state_file, scd2_mode, got[1],
                                    Validate(got[1]))
        /\ UNCHANGED <<worldVars, scd2_mode, historyVars>>
        /\ UNCHANGED <<fetchVars, dedupVars, validateVars, retryVars, raceVars>>

\* load_incremental when the k-th page request raises: the exception leaves
\* fetch_all, the list() around it (with the records of the pages before)
\* and load_incremental; lines 502-509 are not reached.
LoadIncrementalFails(days, k) ==
    /\ ~ReadRaises(state_file)
    /\ YieldedBefore(MatchedBy(state_file, scd2_mode, upstream, now, days),
                     page_size, k, 0, <<>>) # None
    /\ strategy' = StrategyOf(state_file, scd2_mode)
    /\ last_state' = state_file
    /\ fetched' = YieldedBefore(MatchedBy(state_file, scd2_mode, upstream,
                                          now, days), page_size, k, 0, <<>>)[1]
    /\ returned' = <<>>
    /\ report' = EmptyReport
    /\ outcome' = "raised"
    /\ UNCHANGED <<worldVars, state_file, scd2_mode, historyVars>>
    /\ UNCHANGED <<fetchVars, dedupVars, validateVars, retryVars, raceVars>>

\* load_incremental when _read_state raises (line 488): no query is run.
LoadIncrementalReadRaises ==
    /\ ReadRaises(state_file)
    /\ strategy' = "none"
    /\ last_state' = state_file
    /\ fetched' = <<>>
    /\ returned' = <<>>
    /\ report' = EmptyReport
    /\ outcome' = "state_error"
    /\ UNCHANGED <<worldVars, state_file, scd2_mode, historyVars>>
    /\ UNCHANGED <<fetchVars, dedupVars, validateVars, retryVars, raceVars>>

\* The caller has taken the result of the last load.
TakeResult ==
    /\ strategy' = "none"
    /\ last_state' = AbsentFile
    /\ fetched' = <<>>
    /\ returned' = <<>>
    /\ report' = EmptyReport
    /\ outcome' = "idle"

\* The world: time passes.  Every event of the world below is stamped with
\* the instant it happens at, and the next event happens at a later one.
Tick ==
    /\ now <= MaxDate
    /\ now' = now + 1
    /\ TakeResult
    /\ UNCHANGED <<upstream, state_file, scd2_mode, historyVars>>
    /\ UNCHANGED <<fetchVars, dedupVars, validateVars, retryVars, raceVars>>

\* The world: a service request is filed, with or without a key, with or
\* without a created_date.
UpstreamCreate(key, dated) ==
    /\ now <= MaxDate
    /\ Len(upstream) < MaxUp
    /\ upstream' = <<Request(key, IF dated THEN now ELSE 0)>> \o upstream
    /\ now' = now + 1
    /\ TakeResult
    /\ UNCHANGED <<state_file, scd2_mode, historyVars>>
    /\ UNCHANGED <<fetchVars, dedupVars, validateVars, retryVars, raceVars>>

\* The world: the agency records an action on a request.
UpstreamUpdate(i) ==
    /\ now <= MaxDate
    /\ upstream' =
         [upstream EXCEPT ![i].resolution_action_updated_date = now]
    /\ now' = now + 1
    /\ TakeResult
    /\ UNCHANGED <<state_file, scd2_mode, historyVars>>
    /\ UNCHANGED <<fetchVars, dedupVars, validateVars, retryVars, raceVars>>

\* The world: a request is closed.
UpstreamClose(i) ==
    /\ now <= MaxDate
    /\ upstream' = [upstream EXCEPT ![i].closed_date = now]
    /\ now' = now + 1
    /\ TakeResult
    /\ UNCHANGED <<state_file, scd2_mode, historyVars>>
    /\ UNCHANGED <<fetchVars, dedupVars, validateVars, retryVars, raceVars>>

Init ==
    /\ LoaderInit
    /\ matching = <<>>
    /\ max_records = None
    /\ offset = 0
    /\ total_fetched = 0
    /\ records = <<>>
    /\ idx = 0
    /\ emitted = <<>>
    /\ requests = <<>>
    /\ pc = "idle"
    /\ DedupIdle
    /\ ValidateIdle
    /\ RetryIdle
    /\ RaceIdle

Next ==
    \/ \E days \in 0..MaxLookback : LoadIncremental(days)
    \/ \E days \in 0..MaxLookback, k \in 1..MaxRequests :
          LoadIncrementalFails(days, k)
    \/ LoadIncrementalReadRaises
    \/ Tick
    \/ \E key \in 0..MaxKey, dated \in BOOLEAN : UpstreamCreate(key, dated)
    \/ \E i \in 1..Len(upstream) : UpstreamUpdate(i)
    \/ \E i \in 1..Len(upstream) : UpstreamClose(i)

Spec == Init /\ [][Next]_vars

\* ------------------------------------- validate_records, taken on its own
\* A record of the given key with one thing wrong with it, or nothing.
Sample(key, defect) ==
    CASE defect = "none" -> Request(key, 1)
      [] defect = "undated" -> Request(key, 0)
      [] defect = "no_borough" -> [Request(key, 1) EXCEPT !.borough = ""]
      [] defect = "no_coords" ->
           [Request(key, 1) EXCEPT !.latitude = NoCoord, !.longitude = NoCoord]
      [] defect = "junk_coords" ->
           [Request(key, 1) EXCEPT !.latitude = Coord("junk", 0)]
      [] defect = "outside" ->
           [Request(key, 1) EXCEPT !.latitude = Coord("num", 0),
                                   !.longitude = Coord("num", 0)]

\* The records a batch handed to validate_records is drawn from.
Samples ==
    {Sample(key, defect) :
        key \in 0..MaxKey,
        defect \in {"none", "undated", "no_borough", "no_coords",
                    "junk_coords", "outside"}}

\* DataQualityReport(total_records=total, null_unique_key=nuk, ...), the
\* other fields as for a batch with nothing else wrong.
Report(total, nuk, ncd, dup) ==
    [total_records |-> total,
     null_unique_key |-> nuk,
     null_created_date |-> ncd,
     null_borough |-> 0,
     invalid_coordinates |-> 0,
     duplicate_keys |-> dup,
     date_range |-> <<None, None>>]

\* The values a latitude or longitude field takes in a batch of one record:
\* on, inside and outside the edges of the box, as text and as numbers.
Latitudes ==
    {NoCoord, Coord("junk", 0)}
      \cup {Coord(p, v) : p \in {"num", "float"},
                          v \in {0, 403, 404, 407, 410, 411}}

Longitudes ==
    {NoCoord, Coord("junk", 0)}
      \cup {Coord(p, v) : p \in {"num", "float"},
                          v \in {0, -744, -743, -739, -737, -736}}

CoordSamples ==
    {[Request(1, 1) EXCEPT !.latitude = lat, !.longitude = lon] :
        lat \in Latitudes, lon \in Longitudes}

\* Either a batch is about to be validated, or a report of a larger batch
\* has been built: the counts are those validate_records can produce.
ValidateInit ==
    /\ is_valid = TRUE
    /\ \/ /\ vpc = "given"
          /\ \E n \in 0..MaxChecked : checked \in [1..n -> Samples]
          /\ quality = EmptyReport
       \/ /\ vpc = "given"
          /\ checked \in [1..1 -> CoordSamples]
          /\ quality = EmptyReport
       \/ /\ vpc = "built"
          /\ checked = <<>>
          /\ \E total \in 1..MaxTotal :
               \E nuk \in 0..Min(MaxCount, total),
                  ncd \in 0..Min(MaxCount, total) :
                 \E dup \in 0..Min(MaxCount, total - nuk) :
                    quality = Report(total, nuk, ncd, dup)

\* report = validate_records(records); line 410 reads report.is_valid to
\* decide on the warning.
ValidateRecords ==
    /\ vpc = "given"
    /\ quality' = Validate(checked)
    /\ is_valid' = IsValid(quality')
    /\ vpc' = "validated"
    /\ UNCHANGED checked
    /\ UNCHANGED <<fetchVars, dedupVars, loaderVars, retryVars, raceVars>>

\* report.is_valid, read from a report built directly.
ReadIsValid ==
    /\ vpc = "built"
    /\ is_valid' = IsValid(quality)
    /\ vpc' = "judged"
    /\ UNCHANGED <<checked, quality>>
    /\ UNCHANGED <<fetchVars, dedupVars, loaderVars, retryVars, raceVars>>

ValidateNext == ValidateRecords \/ ReadIsValid

InitValidate ==
    /\ ValidateInit
    /\ FetchIdle /\ DedupIdle /\ LoaderIdle /\ RetryIdle /\ RaceIdle

SpecValidate == InitValidate /\ [][ValidateNext]_vars

\* ------------------------------------- _fetch_page through the adapter
\* The statuses the server may answer a page request with.
Statuses == {200, 400, 404, 429, 500, 501, 502, 503, 504}

\* A slip: every 5xx is forced to a retry.
StatusForcelistAllServerErrors == {429} \cup {s \in Statuses : s >= 500}

\* status_forcelist=[429, 500, 502, 503, 504]
StatusForcelist == {429, 500, 502, 503, 504}

\* Retry(total=self.config.max_retries): a response whose status is in the
\* forcelist is retried while retries remain; total counts retries, so the
\* request is sent at most 1 + total times.
RetriesLeft(sent, total) == sent <= total

\* response.raise_for_status(): HTTPError for 4xx and 5xx.
RaiseForStatus(s) == s >= 400

RetryInit ==
    /\ max_retries \in 0..MaxRetries
    /\ attempts = 0
    /\ responses = <<>>
    /\ rpc = "sending"

\* self.session.get(url) is answered with status s: the adapter sends the
\* request again (after the backoff sleep) or raises RetryError when the
\* retries are used up; otherwise raise_for_status raises HTTPError or
\* _fetch_page returns response.json().
FetchPageResponse(s) ==
    /\ rpc = "sending"
    /\ attempts' = attempts + 1
    /\ responses' = Append(responses, s)
    /\ rpc' = IF s \in StatusForcelist
                THEN IF RetriesLeft(attempts', max_retries)
                       THEN "sending"
                       ELSE "raised"
                ELSE IF RaiseForStatus(s) THEN "raised" ELSE "returned"
    /\ UNCHANGED max_retries
    /\ UNCHANGED <<fetchVars, dedupVars, loaderVars, validateVars, raceVars>>

RetryNext == \E s \in Statuses : FetchPageResponse(s)

InitRetry ==
    /\ RetryInit
    /\ FetchIdle /\ DedupIdle /\ LoaderIdle /\ ValidateIdle /\ RaceIdle

SpecRetry == InitRetry /\ [][RetryNext]_vars

\* ------------------------------- two load_incremental calls at once
\* Two loaders of one mode share the state file.  Either nothing has been
\* loaded yet, or one request has been filed and loaded.
RaceInit ==
    /\ scd2_mode \in BOOLEAN
    /\ \/ /\ upstream = <<>>
          /\ now = 1
          /\ state_file = AbsentFile
       \/ /\ upstream = <<Request(1, 1)>>
          /\ now = 2
          /\ state_file = WriteState(1, scd2_mode)
    /\ ResultIdle
    /\ delivered = {}
    /\ repeats = {}
    /\ lpc = [l \in Calls |-> "start"]
    /\ lstamp = [l \in Calls |-> None]
    /\ lwrite = [l \in Calls |-> None]
    /\ writes = <<>>
    /\ matching = <<>>
    /\ page_size = 2
    /\ max_records = None
    /\ offset = 0
    /\ total_fetched = 0
    /\ records = <<>>
    /\ idx = 0
    /\ emitted = <<>>
    /\ requests = <<>>
    /\ pc = "idle"

\* The state file as call l saw it at line 488.
ViewOf(l) == StateFile("object", lstamp[l], scd2_mode)

\* last_timestamp = self._read_state()
RaceRead(l) ==
    /\ lpc[l] = "start"
    /\ lstamp' = [lstamp EXCEPT ![l] = ReadState(state_file)]
    /\ lpc' = [lpc EXCEPT ![l] = "read"]
    /\ UNCHANGED <<lwrite, writes>>
    /\ UNCHANGED <<fetchVars, dedupVars, loaderVars, validateVars, retryVars>>

\* Lines 490-502 and the test of line 505: the query runs over the dataset
\* as it is now, the batch is validated, and report.date_range[1] is kept
\* if it is to be written.
RaceFetch(l, days) ==
    /\ lpc[l] = "read"
    /\ LET recs == RecordsOf(ViewOf(l), scd2_mode, upstream, page_size, now,
                             days)
           rep == Validate(recs)
       IN  lwrite' = [lwrite EXCEPT ![l] =
                        IF recs # <<>> /\ Truthy(rep.date_range[2])
                          THEN rep.date_range[2]
                          ELSE None]
    /\ lpc' = [lpc EXCEPT ![l] = "fetched"]
    /\ UNCHANGED <<lstamp, writes>>
    /\ UNCHANGED <<fetchVars, dedupVars, loaderVars, validateVars, retryVars>>

\* A slip-free variant the code does not have: the file keeps the greater
\* of its timestamp and the one written.
RaceWriteKeepsGreater(l) ==
    /\ lpc[l] = "fetched"
    /\ lpc' = [lpc EXCEPT ![l] = "done"]
    /\ IF lwrite[l] # None
         THEN /\ state_file' =
                   IF /\ HasWatermark(state_file)
                      /\ ReadState(state_file)[1] > lwrite[l][1]
                     THEN state_file
                     ELSE WriteState(lwrite[l][1], scd2_mode)
              /\ writes' = Append(writes, <<l, lwrite[l][1]>>)
         ELSE UNCHANGED <<state_file, writes>>
    /\ UNCHANGED <<lstamp, lwrite>>
    /\ UNCHANGED <<worldVars, scd2_mode, resultVars, historyVars>>
    /\ UNCHANGED <<fetchVars, dedupVars, validateVars, retryVars>>

\* Lines 505-509: self._write_state(report.date_range[1]) if there is one,
\* then return.
RaceWrite(l) ==
    /\ lpc[l] = "fetched"
    /\ lpc' = [lpc EXCEPT ![l] = "done"]
    /\ IF lwrite[l] # None
         THEN /\ state_file' = WriteState(lwrite[l][1], scd2_mode)
              /\ writes' = Append(writes, <<l, lwrite[l][1]>>)
         ELSE UNCHANGED <<state_file, writes>>
    /\ UNCHANGED <<lstamp, lwrite>>
    /\ UNCHANGED <<worldVars, scd2_mode, resultVars, historyVars>>
    /\ UNCHANGED <<fetchVars, dedupVars, validateVars, retryVars>>

\* The world: a service request is filed while the calls run.
RaceCreate(key) ==
    /\ now <= MaxDate
    /\ upstream' = <<Request(key, now)>> \o upstream
    /\ now' = now + 1
    /\ UNCHANGED <<state_file, scd2_mode, resultVars, historyVars>>
    /\ UNCHANGED raceVars
    /\ UNCHANGED <<fetchVars, dedupVars, validateVars, retryVars>>

RaceNext ==
    \/ \E l \in Calls : RaceRead(l)
    \/ \E l \in Calls, days \in 0..MaxLookback : RaceFetch(l, days)
    \/ \E l \in Calls : RaceWrite(l)
    \/ \E key \in 1..MaxKey : RaceCreate(key)

InitRace == RaceInit /\ DedupIdle /\ ValidateIdle /\ RetryIdle

SpecRace == InitRace /\ [][RaceNext]_vars

\* ------------------------------------------------- claims about fetch_all
M == Len(matching)

Ceil(a, b) == (a + b - 1) \div b

\* The page the server returned to the i-th request of this run.
PageOf(i) == Page(matching, requests[i], Limit(page_size))

\* C2: over an unchanging upstream of M matching records, with no
\* max_records, a completed fetch_all has emitted exactly the M records: each
\* once, in upstream order, none skipped and none repeated.
C2_EmitsEveryRecordOnce ==
    (pc = "done" /\ max_records = None) => emitted = matching

\* A completed run without max_records that needed several pages, the last
\* of them short.
C2_Witness ==
    /\ pc = "done"
    /\ max_records = None
    /\ M > 2 * page_size
    /\ M % page_size # 0
    /\ emitted = matching

\* C3 as stated: without max_records a completed fetch_all has issued exactly
\* ceil(M/P) page requests, and with max_records no more than that, for every
\* M >= 0.
C3_CeilRequests ==
    pc = "done" =>
        IF max_records = None
          THEN Len(requests) = Ceil(M, page_size)
          ELSE Len(requests) <= Ceil(M, page_size)

\* C3 amended: without max_records a completed fetch_all has issued exactly
\* floor(M/P) + 1 page requests (ceil(M/P) when P does not divide M, one more,
\* an empty last page, when it does, M = 0 included), and with max_records
\* no more than floor(M/P) + 1.
C3_FloorPlusOneRequests ==
    pc = "done" =>
        /\ max_records = None => Len(requests) = (M \div page_size) + 1
        /\ max_records = None /\ M % page_size # 0
              => Len(requests) = Ceil(M, page_size)
        /\ max_records = None /\ M % page_size = 0
              => Len(requests) = Ceil(M, page_size) + 1
        /\ Len(requests) <= (M \div page_size) + 1

\* A completed run without max_records over a non-empty upstream that is an
\* exact multiple of the page size: its last request returned an empty page.
C3_Witness ==
    /\ pc = "done"
    /\ max_records = None
    /\ M > page_size
    /\ M % page_size = 0
    /\ Len(requests) = (M \div page_size) + 1
    /\ PageOf(Len(requests)) = <<>>

\* C4: the offsets requested in one run start at 0 and strictly increase,
\* each being the previous offset plus the length of the previous page, so no
\* offset is requested twice; a request is issued only when the previous
\* page has been consumed whole.
C4_OffsetsStrictlyIncrease ==
    /\ requests # <<>> => requests[1] = 0
    /\ \A i \in 1..(Len(requests) - 1) :
          /\ requests[i + 1] = requests[i] + Len(PageOf(i))
          /\ requests[i + 1] > requests[i]
    /\ \A i, j \in 1..Len(requests) : requests[i] = requests[j] => i = j
    /\ pc = "request" => (offset = total_fetched /\ offset = Len(emitted))

\* Three requests issued in one run.
C4_Witness ==
    /\ Len(requests) = 3
    /\ requests[3] = 2 * page_size
    /\ page_size > 1

\* C5: a request is issued after a page only if none of the stop conditions
\* has occurred: the page was not empty, not shorter than page_size, and the
\* total emitted has not reached max_records.
C5_StopsAtFirstStopCondition ==
    (pc = "request" /\ requests # <<>>) =>
        /\ records # <<>>
        /\ Len(records) = page_size
        /\ max_records # None => total_fetched < max_records[1]

\* C5 where the code does keep it: with max_records None or at least 1.
C5_HoldsForPositiveMax ==
    max_records # Some(0) => C5_StopsAtFirstStopCondition

\* C5, the liveness half: every run ends, completed or failed.
C5_Terminates == <>(pc \in {"done", "failed"})

\* C6: with max_records given (0 included), a completed fetch_all has emitted
\* exactly min(M, max_records) records and never more than max_records.
C6_EmitsMinOfMAndMax ==
    max_records # None =>
        /\ Len(emitted) <= max_records[1]
        /\ pc = "done" => Len(emitted) = Min(M, max_records[1])

\* ---------------------------------------- claims about the deduplication
KeysOf(recs) == {recs[i].unique_key : i \in 1..Len(recs)} \ {0}

\* C7: for every unique_key present in the fetched batch, the record kept for
\* it is a fetched record of that key whose resolution_action_updated_date
\* (absent = "", the smallest) is the greatest among the fetched records of
\* the key, whatever the order of arrival.
C7_KeepsGreatestUpdate ==
    dpc = "returned" =>
        \A k \in KeysOf(batch) :
            \E i \in 1..Len(deduped) :
                /\ deduped[i].unique_key = k
                /\ deduped[i] \in Range(batch)
                /\ \A j \in 1..Len(batch) :
                      batch[j].unique_key = k =>
                        batch[j].resolution_action_updated_date
                            <= deduped[i].resolution_action_updated_date

\* Three observations of one entity arrive with the newest in the middle,
\* one of them without an update stamp; the newest is what is returned.
C7_Witness ==
    /\ dpc = "returned"
    /\ Len(batch) = 3
    /\ \A j \in 1..3 : batch[j].unique_key = 1
    /\ batch[1].resolution_action_updated_date = 1
    /\ batch[2].resolution_action_updated_date = 2
    /\ batch[3].resolution_action_updated_date = 0
    /\ deduped = <<batch[2]>>

C9_DedupIdempotent ==
    dpc = "returned" => Dedup(deduped) = deduped

\* A batch the pass did collapse, to more than one record.
C9_Witness ==
    /\ dpc = "returned"
    /\ Len(deduped) = 2
    /\ Len(batch) = 3
    /\ Cardinality(KeysOf(batch)) = 2
    /\ \A j \in 1..3 : batch[j].unique_key # 0

\* ------------------------------------------------ claims about the loader
\* The persisted last_loaded_timestamp, 0 when there is none to read.
Watermark(f) == IF HasWatermark(f) THEN ReadState(f)[1] ELSE 0

\* C1: the timestamp persisted after a load is at least the one persisted
\* before it (after the load before), in either mode, and the state file is
\* the same when the load returned no records.
C1_WatermarkMonotone ==
    outcome = "returned" =>
        /\ HasWatermark(last_state) =>
              /\ HasWatermark(state_file)
              /\ Watermark(state_file) >= Watermark(last_state)
        /\ returned = <<>> => state_file = last_state

\* C1 where the code does keep it: a load in new-only mode never lowers the
\* watermark, and no load that returns nothing touches the state file.
C1_HoldsInNewOnlyMode ==
    outcome = "returned" =>
        /\ (~scd2_mode /\ HasWatermark(last_state)) =>
              Watermark(state_file) >= Watermark(last_state)
        /\ returned = <<>> => state_file = last_state

\* The records fetch_all yielded to the last load that have no unique_key and
\* are not among the records returned.
LostWithoutKey ==
    {i \in 1..Len(fetched) :
        fetched[i].unique_key = 0 /\ fetched[i] \notin Range(returned)}

\* C10: in a change-tracking load, every fetched record without unique_key
\* is among the returned records or counted in the report's null_unique_key.
C10_KeylessRecordsAreCounted ==
    (outcome = "returned" /\ strategy = "changed_since") =>
        Cardinality(LostWithoutKey) <= report.null_unique_key

\* The state file holds a JSON object with a non-empty last_loaded_timestamp.
UsableWatermark(f) == f.kind = "object" /\ f.ts # None /\ f.ts # Some(0)

\* The query a load must run from the state file it found and its own mode.
ExpectedStrategy(f, mode) ==
    IF ~UsableWatermark(f)
      THEN "recent"
      ELSE IF mode THEN "changed_since" ELSE "since"

\* What the query of that name yields over the dataset, for some lookback.
YieldOf(name, f) ==
    IF name = "recent"
      THEN {SelectSeq(upstream, LAMBDA r : r.created_date # 0
                        /\ r.created_date >= SinceDate(now, days)) :
               days \in 0..MaxLookback}
      ELSE IF name = "since"
             THEN {SelectSeq(upstream, LAMBDA r : r.created_date > f.ts[1])}
             ELSE {SelectSeq(upstream, LAMBDA r :
                       \/ r.created_date > f.ts[1]
                       \/ r.resolution_action_updated_date > f.ts[1]
                       \/ r.closed_date > f.ts[1])}

\* C11: every load runs exactly the one query its state file and mode call
\* for: recent(initial_lookback_days) without a usable watermark,
\* changed_since(W) with one in scd2 mode, since(W) with one otherwise.
C11_StrategyFromState ==
    outcome # "idle" =>
        /\ strategy = ExpectedStrategy(last_state, scd2_mode)
        /\ outcome = "returned" => fetched \in YieldOf(strategy, last_state)

\* C11 where the code does keep it: for every state file _read_state can read.
C11_HoldsUnlessReadRaises ==
    outcome \in {"returned", "raised"} =>
        /\ strategy = ExpectedStrategy(last_state, scd2_mode)
        /\ outcome = "returned" => fetched \in YieldOf(strategy, last_state)

\* The records of the last load that carry a created_date.
Dated(recs) == {i \in 1..Len(recs) : recs[i].created_date # 0}

\* C12: after a load that returned at least one record with a created_date,
\* the state file holds a watermark, and it is the greatest created_date
\* among the records returned.
C12_WatermarkIsMaxCreated ==
    (outcome = "returned" /\ Dated(returned) # {}) =>
        /\ UsableWatermark(state_file)
        /\ \E i \in Dated(returned) :
              returned[i].created_date = Watermark(state_file)
        /\ \A i \in Dated(returned) :
              returned[i].created_date <= Watermark(state_file)

\* A first load from an absent state file returned records of two different
\* dates and wrote the later one.
C12_Witness ==
    /\ outcome = "returned"
    /\ last_state = AbsentFile
    /\ \E i, j \in Dated(returned) :
          /\ returned[i].created_date < returned[j].created_date
          /\ Watermark(state_file) = returned[j].created_date

\* C12, "thereafter": a state file that holds a watermark keeps holding one.
C12_StaysHasWatermark ==
    [][UsableWatermark(state_file) => UsableWatermark(state_file')]_vars

\* C13: a load that returned no records, or whose report has no date range,
\* did not write the state file: it is exactly the file the load found.
C13_NoWriteWithoutDates ==
    (/\ outcome = "returned"
     /\ \/ returned = <<>>
        \/ report.date_range = <<None, None>>) =>
        state_file = last_state

\* A load returned a record, none with a created_date, and left a watermark
\* in place.
C13_Witness ==
    /\ outcome = "returned"
    /\ returned # <<>>
    /\ report.date_range = <<None, None>>
    /\ UsableWatermark(last_state)
    /\ state_file = last_state

\* C14: when a page request of a load fails, the first or a later one, the
\* load raises: it returns no records, not even those of the pages before,
\* and the state file is the file the load found.
C14_FailurePropagates ==
    outcome = "raised" =>
        /\ returned = <<>>
        /\ report = EmptyReport
        /\ state_file = last_state

\* The second request of a load failed after a first page of dated records.
C14_Witness ==
    /\ outcome = "raised"
    /\ Dated(fetched) # {}
    /\ returned = <<>>
    /\ state_file = last_state

\* C15: whatever lies at the state location without a usable watermark
\* (nothing, text that is not JSON, JSON that is not an object, an object
\* without last_loaded_timestamp or with an empty one), a load raises no error
\* of reading the state and runs the initial-lookback query.
C15_CorruptStateFallsBack ==
    (outcome # "idle" /\ ~UsableWatermark(last_state)) =>
        /\ outcome # "state_error"
        /\ strategy = "recent"

\* C15 where the code does keep it: every such content but JSON that is not
\* an object.
C15_HoldsUnlessNonObject ==
    (/\ outcome # "idle"
     /\ ~UsableWatermark(last_state)
     /\ last_state.kind # "nonobject") =>
        /\ outcome # "state_error"
        /\ strategy = "recent"

\* A load that follows a successful load which left a watermark, with no
\* upstream event (and no clock instant) between the two.
SecondLoad ==
    /\ outcome = "returned"
    /\ UsableWatermark(state_file)
    /\ outcome' = "returned"

\* C16: in either mode, a load that follows a successful load over an
\* unchanged upstream returns no records and leaves the watermark the first
\* load left.
C16_SecondLoadReturnsNothing ==
    [][SecondLoad => (returned' = <<>> /\ state_file' = state_file)]_vars

\* C16 where the code does keep it: in new-only mode.
C16_HoldsInNewOnlyMode ==
    [][(SecondLoad /\ ~scd2_mode) =>
           (returned' = <<>> /\ state_file' = state_file)]_vars

\* ------------------------------------------ claims about data quality
\* One record in twenty: a count that is exactly 5% of the batch, or more.
FivePercentOrMore(count, total) == 20 * count >= total

C18_EmptyBatchIsValid ==
    (vpc = "validated" /\ checked = <<>>) =>
        /\ quality.total_records = 0
        /\ quality.null_unique_key = 0
        /\ quality.null_created_date = 0
        /\ quality.null_borough = 0
        /\ quality.invalid_coordinates = 0
        /\ quality.duplicate_keys = 0
        /\ quality.date_range = <<None, None>>
        /\ is_valid

\* The empty batch has been validated.
C18_Witness ==
    /\ vpc = "validated"
    /\ checked = <<>>
    /\ quality.total_records = 0
    /\ is_valid

\* C19: the report of a non-empty batch has null_unique_key +
\* duplicate_keys <= total_records and 0 <= invalid_coordinates <=
\* total_records.
C19_CountsWithinTotal ==
    (vpc = "validated" /\ checked # <<>>) =>
        /\ quality.total_records = Len(checked)
        /\ quality.null_unique_key + quality.duplicate_keys
             <= quality.total_records
        /\ 0 <= quality.invalid_coordinates
        /\ quality.invalid_coordinates <= quality.total_records

\* A batch with a missing key, a repeated key and every coordinate pair
\* invalid: both bounds are reached.
C19_Witness ==
    /\ vpc = "validated"
    /\ Len(checked) = 3
    /\ quality.null_unique_key = 1
    /\ quality.duplicate_keys = 1
    /\ quality.invalid_coordinates = 3

\* How many records of the batch carry the key.
Occurrences(recs, key) ==
    Cardinality({i \in 1..Len(recs) : recs[i].unique_key = key})

\* The keys present in the batch.
PresentKeys(recs) == {recs[i].unique_key : i \in 1..Len(recs)} \ {0}

\* C20 as stated: duplicate_keys is the number of unique_key values that
\* occur more than once, so a key occurring three times counts as one
\* occurring twice does.
C20_CountsRepeatedKeys ==
    vpc = "validated" =>
        quality.duplicate_keys
          = Cardinality({k \in PresentKeys(checked) :
                           Occurrences(checked, k) > 1})

\* C20 as the code has it: duplicate_keys is the number of records whose
\* unique_key occurred earlier in the batch, so a key occurring n times
\* counts n - 1: twice counts 1, three times counts 2.
C20_CountsSurplusOccurrences ==
    vpc = "validated" =>
        /\ quality.duplicate_keys
             = Cardinality({i \in 1..Len(checked) :
                              /\ checked[i].unique_key # 0
                              /\ \E j \in 1..(i - 1) :
                                    checked[j].unique_key
                                      = checked[i].unique_key})
        /\ \A k \in PresentKeys(checked) :
              PresentKeys(checked) = {k} =>
                  quality.duplicate_keys = Occurrences(checked, k) - 1

\* One key occurs three times in a batch and duplicate_keys is 2.
C20_Witness ==
    /\ vpc = "validated"
    /\ \E k \in PresentKeys(checked) : Occurrences(checked, k) = 3
    /\ quality.duplicate_keys = 2

\* ------------------------------------------------ claims about retries
\* The status of the last response received.
LastStatus == responses[Len(responses)]

\* A transient failure status as the claim has it: 429 or any 5xx.
Transient(s) == s = 429 \/ s >= 500

Present(c) == c.p # "absent"

\* The pair parses and lies in [40.4, 41.0] x [-74.3, -73.7].
InsideBox(r) ==
    /\ r.latitude.p \in {"num", "float"}
    /\ r.longitude.p \in {"num", "float"}
    /\ r.latitude.v \in 404..410
    /\ r.longitude.v \in -743..-737

\* The records the claim has counted: pair present, and unparseable or
\* outside the box.
BadPairs(recs) ==
    {i \in 1..Len(recs) :
        /\ Present(recs[i].latitude)
        /\ Present(recs[i].longitude)
        /\ ~InsideBox(recs[i])}

\* C22: invalid_coordinates counts every record whose coordinate pair is
\* present and does not parse or lies outside the box, (0, 0) included, and
\* no record whose pair lies inside it, (40.7, -73.9) included.
C22_CountsBadPairs ==
    vpc = "validated" =>
        quality.invalid_coordinates = Cardinality(BadPairs(checked))

\* C22 where the code does keep it: when no coordinate is the number zero.
C22_HoldsWithoutNumericZero ==
    (/\ vpc = "validated"
     /\ \A i \in 1..Len(checked) :
           /\ checked[i].latitude # Coord("float", 0)
           /\ checked[i].longitude # Coord("float", 0)) =>
        quality.invalid_coordinates = Cardinality(BadPairs(checked))

\* ----------------------------------- claims about quality and the loader
\* The report of the last load fails the 5% test.
Degraded ==
    /\ report.total_records > 0
    /\ \/ 20 * (report.null_unique_key + report.null_created_date)
             >= report.total_records
       \/ 20 * report.duplicate_keys >= report.total_records

\* C23: a load whose report is not valid has not raised: it returned the
\* records the report is about, and it advanced the watermark to their
\* greatest created_date exactly as a load with a valid report does, leaving
\* the state file alone only when no record has a created_date.
C23_DegradedLoadStillLoads ==
    Degraded =>
        /\ outcome = "returned"
        /\ returned # <<>>
        /\ report.total_records = Len(returned)
        /\ IF Dated(returned) = {}
             THEN state_file = last_state
             ELSE /\ UsableWatermark(state_file)
                  /\ \A i \in Dated(returned) :
                        returned[i].created_date <= Watermark(state_file)
                  /\ \E i \in Dated(returned) :
                        returned[i].created_date = Watermark(state_file)

\* A load returned a batch with a missing key, so not valid, and wrote a
\* watermark where there was none.
C23_Witness ==
    /\ outcome = "returned"
    /\ Degraded
    /\ report.null_unique_key > 0
    /\ ~UsableWatermark(last_state)
    /\ UsableWatermark(state_file)

\* ------------------------------------------- claims about new-only mode
\* C24: in new-only mode, a load that starts from a watermark W and
\* overwrites the state file writes a value strictly greater than W, every
\* record it returns is later than W, and no record is returned by two
\* different loads.
C24_NewOnlyNeverRepeats ==
    /\ [](~scd2_mode => repeats = {})
    /\ [][(~scd2_mode /\ UsableWatermark(state_file)) =>
            /\ state_file' # state_file
                  => Watermark(state_file') > Watermark(state_file)
            /\ outcome' = "returned" =>
                  \A i \in 1..Len(returned') :
                      returned'[i].created_date > Watermark(state_file)]_vars

\* A new-only loader that had a watermark returned a later record, after
\* an earlier load had returned another, and moved the watermark up.
C24_Witness ==
    /\ ~scd2_mode
    /\ outcome = "returned"
    /\ UsableWatermark(last_state)
    /\ returned # <<>>
    /\ Watermark(state_file) > Watermark(last_state)
    /\ Cardinality(delivered) >= 2
    /\ Watermark(last_state) \in delivered
    /\ repeats = {}

\* ------------------------------------------ claims about concurrent loads
\* C25: nothing serialises two calls on one state file: after any write the
\* file holds the timestamp written last, whatever it held before.
C25_LastWriterWins ==
    writes # <<>> =>
        state_file = WriteState(writes[Len(writes)][2], scd2_mode)

\* Both calls read the same watermark before either wrote (neither read a
\* value the other wrote), each wrote, and the file ends with the smaller of
\* the two values written, because that one was written last.
C25_Witness ==
    /\ lpc = [l \in Calls |-> "done"]
    /\ Len(writes) = 2
    /\ writes[1][1] # writes[2][1]
    /\ lstamp[1] = lstamp[2]
    /\ Truthy(lstamp[1])
    /\ lstamp[1][1] < writes[2][2]
    /\ writes[2][2] < writes[1][2]
    /\ Watermark(state_file) = writes[2][2]

=============================================================================
